---- MODULE Spec2Model ----
(***************************************************************************)
(* Textual codec layer of atticlab/ripple (package data, interface.go).    *)
(*                                                                         *)
(* A text ([]byte / string) is a sequence of one-character strings.  The   *)
(* three regular expressions and the byte slicing of the codecs work on    *)
(* that sequence; encoding/json is modelled by a reader (JsonParse) of the *)
(* same sequence.                                                          *)
(***************************************************************************)
EXTENDS Integers, Sequences, FiniteSets, TLC

\* ------------------------------------------------------------------------
\* Characters and literals
\* ------------------------------------------------------------------------
Q == "\""
NL == "\n"
Digits == {"0", "1", "2", "3", "4", "5", "6", "7", "8", "9"}
HexChars == Digits \cup {"a", "b", "c", "d", "e", "f", "A", "B", "C", "D", "E", "F"}

\* the key names and values the codecs and their inputs spell out
Text ==
    [TransactionType |-> <<"T","r","a","n","s","a","c","t","i","o","n","T","y","p","e">>,
     hash |-> <<"h","a","s","h">>,
     metaData |-> <<"m","e","t","a","D","a","t","a">>,
     meta |-> <<"m","e","t","a">>,
     inLedger |-> <<"i","n","L","e","d","g","e","r">>,
     ledger_index |-> <<"l","e","d","g","e","r","_","i","n","d","e","x">>,
     TransactionIndex |-> <<"T","r","a","n","s","a","c","t","i","o","n","I","n","d","e","x">>,
     TransactionResult |-> <<"T","r","a","n","s","a","c","t","i","o","n","R","e","s","u","l","t">>,
     tx |-> <<"t","x">>,
     Payment |-> <<"P","a","y","m","e","n","t">>,
     OfferCreate |-> <<"O","f","f","e","r","C","r","e","a","t","e">>,
     Empty |-> <<"E","m","p","t","y">>,
     Sequence |-> <<"S","e","q","u","e","n","c","e">>,
     Bogus |-> <<"B","o","g","u","s">>,
     tesSUCCESS |-> <<"t","e","s","S","U","C","C","E","S","S">>,
     tecCLAIM |-> <<"t","e","c","C","L","A","I","M">>,
     currency |-> <<"c","u","r","r","e","n","c","y">>,
     issuer |-> <<"i","s","s","u","e","r">>,
     value |-> <<"v","a","l","u","e">>,
     null |-> <<"n", "u", "l", "l">>,
     USD |-> <<"U", "S", "D">>,
     US |-> <<"U", "S">>]

Quoted(s) == <<Q>> \o s \o <<Q>>

Min(S) == CHOOSE x \in S : \A y \in S : x <= y
Max(S) == CHOOSE x \in S : \A y \in S : x >= y

\* ------------------------------------------------------------------------
\* regexp (Go RE2 syntax: leftmost match, greedy .*, "." excludes "\n")
\* ------------------------------------------------------------------------
\* lit occurs in b at position i
OccursAt(lit, b, i) ==
    /\ i >= 1
    /\ i + Len(lit) - 1 <= Len(b)
    /\ \A k \in 1..Len(lit) : b[i + k - 1] = lit[k]

\* first position >= i holding a character of S, or Len(b)+1
RECURSIVE IndexOf(_, _, _)
IndexOf(b, i, S) == IF i > Len(b) \/ b[i] \in S THEN i ELSE IndexOf(b, i + 1, S)

\* first position >= i holding a character outside S, or Len(b)+1
RECURSIVE SkipSet(_, _, _)
SkipSet(b, i, S) == IF i > Len(b) \/ b[i] \notin S THEN i ELSE SkipSet(b, i + 1, S)

\* first position >= j holding a line feed, or Len(b)+1: "." stops there
LineEndAmong(b, nls) == IF nls = {} THEN Len(b) + 1 ELSE Min(nls)
LineEnd(b, j) == LineEndAmong(b, {k \in j..Len(b) : b[k] = NL})

QuotesIn(b, lo, hi) == {k \in lo..hi : b[k] = Q}

\* lit.*"(.*)" anchored at i: the literal, then on the rest of the line a
\* quote, anything, a quote.
KeyedMatchesAt(lit, b, i) ==
    /\ OccursAt(lit, b, i)
    /\ Cardinality(QuotesIn(b, i + Len(lit), LineEnd(b, i + Len(lit)) - 1)) >= 2

\* the text between the last two of the quotes at positions qs, last being
\* the last of them
BetweenLastTwo(b, qs, last) == SubSeq(b, Max(qs \ {last}) + 1, last - 1)

LastTwoQuotes(b, qs) == BetweenLastTwo(b, qs, Max(qs))

\* The submatch of lit.*"(.*)" at i.  Both .* are greedy and the first one
\* has priority: it runs up to the last-but-one quote of the line, and the
\* group is what lies between the last two quotes of the line.
GreedyCapture(lit, b, i) ==
    LastTwoQuotes(b, QuotesIn(b, i + Len(lit), LineEnd(b, i + Len(lit)) - 1))

\* the least element of a set of positions, or 0
Leftmost(at) == IF at = {} THEN 0 ELSE Min(at)

\* the leftmost position where lit.*"(.*)" matches, or 0
KeyedMatch(lit, b) ==
    Leftmost({i \in 1..Len(b) : b[i] = lit[1] /\ KeyedMatchesAt(lit, b, i)})

SubmatchAt(lit, b, at) ==
    IF at = 0 THEN [found |-> FALSE, cap |-> <<>>] ELSE [found |-> TRUE, cap |-> GreedyCapture(lit, b, at)]

\* FindAllStringSubmatch(b, 1) for lit.*"(.*)": the leftmost match only.
FindKeyed(lit, b) == SubmatchAt(lit, b, KeyedMatch(lit, b))

litTransactionType == Quoted(Text.TransactionType) \o <<":">>
litHash == Quoted(Text.hash) \o <<":">>
litMeta == Quoted(Text.meta)
litMetaData == Quoted(Text.metaData)

\* a pattern that leaves the key's end open: "Transaction.*"(.*)"
txmTransactionTypeRegexOpenKey(b) == FindKeyed(<<Q>> \o SubSeq(Text.TransactionType, 1, 11), b)

txmTransactionTypeRegex(b) == FindKeyed(litTransactionType, b)

txmHashRegex(b) == FindKeyed(litHash, b)

\* the leftmost position holding "meta" or "metaData" in quotes, or 0
MetaMatch(b) ==
    Leftmost({i \in 1..Len(b) : b[i] = Q /\ (OccursAt(litMeta, b, i)
                                            \/ OccursAt(litMetaData, b, i))})

MetaSubmatchAt(b, at) ==
    IF at = 0 THEN [found |-> FALSE, cap |-> <<>>]
    ELSE [found |-> TRUE, cap |-> IF OccursAt(litMeta, b, at) THEN Text.meta ELSE Text.metaData]

\* "(meta|metaData)"
txmMetaTypeRegex(b) == MetaSubmatchAt(b, MetaMatch(b))

\* ------------------------------------------------------------------------
\* encoding/json: a reader of objects, strings, unsigned numbers and null
\* ------------------------------------------------------------------------
JNull == [k |-> "null", s |-> <<>>, m |-> <<>>]
JStr(s) == [k |-> "str", s |-> s, m |-> <<>>]
JNum(s) == [k |-> "num", s |-> s, m |-> <<>>]
\* m: the members in input order, each <<key, value>>
JObj(m) == [k |-> "obj", s |-> <<>>, m |-> m]
PFail == [ok |-> FALSE, v |-> JNull, n |-> 0]

SkipWs(b, i) == SkipSet(b, i, {" ", NL})

StringTo(b, i, e) ==
    IF e > Len(b) THEN PFail
    ELSE [ok |-> TRUE, v |-> JStr(SubSeq(b, i + 1, e - 1)), n |-> e + 1]

\* b[i] is the opening quote
ParseString(b, i) == StringTo(b, i, IndexOf(b, i + 1, {Q}))

NumberTo(b, i, e) ==
    IF b[i] = "0" /\ e > i + 1 THEN PFail
    ELSE [ok |-> TRUE, v |-> JNum(SubSeq(b, i, e - 1)), n |-> e]

ParseNumber(b, i) == NumberTo(b, i, SkipSet(b, i, Digits))

RECURSIVE ParseAt(_, _), ParseMembers(_, _, _), AfterKey(_, _, _), AfterColon(_, _, _, _),
          AfterValue(_, _, _, _), AfterMember(_, _, _)

\* the value that starts at i, white space skipped
ParseAt(b, i) ==
    IF i > Len(b) THEN PFail
    ELSE IF b[i] = Q THEN ParseString(b, i)
    ELSE IF b[i] \in Digits THEN ParseNumber(b, i)
    ELSE IF b[i] = "n"
         THEN IF OccursAt(<<"n","u","l","l">>, b, i)
              THEN [ok |-> TRUE, v |-> JNull, n |-> i + 4] ELSE PFail
    ELSE IF b[i] = "{" THEN ParseMembers(b, SkipWs(b, i + 1), <<>>)
    ELSE PFail

ParseValue(b, i) == ParseAt(b, SkipWs(b, i))

\* i: the place of the next member's key, or of the brace closing an object
\* with no member
ParseMembers(b, i, acc) ==
    IF i > Len(b) THEN PFail
    ELSE IF b[i] = "}" /\ acc = <<>> THEN [ok |-> TRUE, v |-> JObj(<<>>), n |-> i + 1]
    ELSE IF b[i] # Q THEN PFail
    ELSE AfterKey(b, ParseString(b, i), acc)

AfterKey(b, key, acc) ==
    IF ~key.ok THEN PFail ELSE AfterColon(b, key.v.s, SkipWs(b, key.n), acc)

AfterColon(b, key, c, acc) ==
    IF c > Len(b) \/ b[c] # ":" THEN PFail
    ELSE AfterValue(b, key, ParseAt(b, SkipWs(b, c + 1)), acc)

AfterValue(b, key, val, acc) ==
    IF ~val.ok THEN PFail
    ELSE AfterMember(b, SkipWs(b, val.n), Append(acc, <<key, val.v>>))

AfterMember(b, d, acc) ==
    IF d > Len(b) THEN PFail
    ELSE IF b[d] = "}" THEN [ok |-> TRUE, v |-> JObj(acc), n |-> d + 1]
    ELSE IF b[d] = "," /\ SkipWs(b, d + 1) <= Len(b) /\ b[SkipWs(b, d + 1)] = Q
         THEN AfterKey(b, ParseString(b, SkipWs(b, d + 1)), acc)
    ELSE PFail

WholeText(b, r) == IF r.ok /\ SkipWs(b, r.n) = Len(b) + 1 THEN r ELSE PFail

\* The whole text is one JSON value (json.Unmarshal checks this first).
JsonParse(b) == WholeText(b, ParseValue(b, 1))

HasMember(v, key) == v.k = "obj" /\ \E k \in 1..Len(v.m) : v.m[k][1] = key
\* a repeated key: the last one wins
Member(v, key) == v.m[Max({k \in 1..Len(v.m) : v.m[k][1] = key})][2]
\* the member's value, or JNull when the key is absent
MemberOrNull(v, key) == IF HasMember(v, key) THEN Member(v, key) ELSE JNull

\* strconv: decimal text <-> unsigned integer
DigitVal(c) == CASE c = "0" -> 0 [] c = "1" -> 1 [] c = "2" -> 2 [] c = "3" -> 3
                 [] c = "4" -> 4 [] c = "5" -> 5 [] c = "6" -> 6 [] c = "7" -> 7
                 [] c = "8" -> 8 [] c = "9" -> 9
DigitChar(d) == CHOOSE c \in Digits : DigitVal(c) = d
RECURSIVE ParseUint(_)
ParseUint(s) == IF s = <<>> THEN 0
                ELSE 10 * ParseUint(SubSeq(s, 1, Len(s) - 1)) + DigitVal(s[Len(s)])
RECURSIVE FormatUint(_)
FormatUint(n) == IF n < 10 THEN <<DigitChar(n)>>
                 ELSE FormatUint(n \div 10) \o <<DigitChar(n % 10)>>

\* ------------------------------------------------------------------------
\* encoding/hex
\* ------------------------------------------------------------------------
HexVal(c) == CASE c \in Digits -> DigitVal(c)
               [] c \in {"a", "A"} -> 10 [] c \in {"b", "B"} -> 11
               [] c \in {"c", "C"} -> 12 [] c \in {"d", "D"} -> 13
               [] c \in {"e", "E"} -> 14 [] c \in {"f", "F"} -> 15
HexDigit(d) == CHOOSE c \in Digits \cup {"a", "b", "c", "d", "e", "f"} : HexVal(c) = d

\* hex.DecodeString: every pair decoded in order; the first bad character of
\* a pair is an error, and so is an odd length
hexDecodeString(s) ==
    IF \E i \in 1..(Len(s) \div 2) : s[2 * i - 1] \notin HexChars \/ s[2 * i] \notin HexChars
    THEN [ok |-> FALSE, bytes |-> <<>>]
    ELSE IF Len(s) % 2 = 1 THEN [ok |-> FALSE, bytes |-> <<>>]
    ELSE [ok |-> TRUE,
          bytes |-> [i \in 1..(Len(s) \div 2) |->
                        16 * HexVal(s[2 * i - 1]) + HexVal(s[2 * i])]]

RECURSIVE hexEncode(_)
hexEncode(bytes) ==
    IF bytes = <<>> THEN <<>>
    ELSE <<HexDigit(bytes[1] \div 16), HexDigit(bytes[1] % 16)>> \o hexEncode(Tail(bytes))

\* copy(dst, src): min(len) leading bytes overwritten, the rest of dst kept
Copy(dst, src) ==
    [i \in 1..Len(dst) |-> IF i <= Len(src) THEN src[i] ELSE dst[i]]

\* ------------------------------------------------------------------------
\* Data model
\* ------------------------------------------------------------------------
\* width in bytes of the content hash (Hash256) as modelled
HashLen == 2
\* the highest ledger sequence a caller builds a value with
MaxSeq == 1

ZeroBytes(n) == [i \in 1..n |-> 0]

\* TransactionType, TransactionResult: name <-> code tables
txTypes == (Text.Payment :> 0) @@ (Text.OfferCreate :> 7)
txNames(code) == CHOOSE n \in DOMAIN txTypes : txTypes[n] = code
reverseResults == (Text.tesSUCCESS :> 0) @@ (Text.tecCLAIM :> 100)
resultNames(code) == CHOOSE n \in DOMAIN reverseResults : reverseResults[n] = code

\* t.UnmarshalText(b) for TransactionType / TransactionResult
TransactionTypeUnmarshalText(b) ==
    IF b \in DOMAIN txTypes THEN [ok |-> TRUE, v |-> txTypes[b]]
    ELSE [ok |-> FALSE, v |-> 0]
TransactionResultUnmarshalText(b) ==
    IF b \in DOMAIN reverseResults THEN [ok |-> TRUE, v |-> reverseResults[b]]
    ELSE [ok |-> FALSE, v |-> 0]
TransactionTypeMarshalText(t) == txNames(t)
TransactionResultMarshalText(r) == resultNames(r)

\* A Transaction (interface value): the concrete variant, its own fields and
\* its content hash.  NilTx is the nil interface; EmptyTx an implementation
\* with no encoded field.
NilTx == [variant |-> <<>>, TransactionType |-> 0, Sequence |-> 0, Hash |-> <<>>]
EmptyTx == [variant |-> Text.Empty, TransactionType |-> 0, Sequence |-> 0,
            Hash |-> ZeroBytes(HashLen)]
NewTx(name) == [variant |-> name, TransactionType |-> txTypes[name], Sequence |-> 0,
                Hash |-> ZeroBytes(HashLen)]

ZeroMetaData == [TransactionIndex |-> 0, TransactionResult |-> 0]
ZeroTxm == [Transaction |-> NilTx, MetaData |-> ZeroMetaData, LedgerSequence |-> 0]

\* GetTxFactoryByType(txType)(): a registered name gives its empty variant.
\* For a name that is not registered the caller receives no error value:
\* the call either builds the variant of the zero TransactionType
\* (unreg = "default") or panics, there being no constructor (unreg = "nil").
GetTxFactoryByType(txType, unreg) ==
    IF txType \in DOMAIN txTypes THEN [panic |-> FALSE, tx |-> NewTx(txType)]
    ELSE IF unreg = "default" THEN [panic |-> FALSE, tx |-> NewTx(txNames(0))]
    ELSE [panic |-> TRUE, tx |-> NilTx]

\* txm.SetHash(h): copied into the transaction's fixed-width hash
SetHash(tx, h) == [tx EXCEPT !.Hash = Copy(tx.Hash, h)]

\* the transaction's own fields stored from their JSON values (JNull: the
\* key is absent, or null): Sequence, then TransactionType through
\* TransactionType.UnmarshalText
StoreTransaction(tx, tt, sq) ==
    IF sq.k \notin {"num", "null"} \/ tt.k \notin {"str", "null"}
    THEN [err |-> "UnmarshalTypeError", tx |-> tx]
    ELSE IF tt.k = "str" /\ ~TransactionTypeUnmarshalText(tt.s).ok
    THEN [err |-> "UnknownTransactionType",
          tx |-> IF sq.k = "num" THEN [tx EXCEPT !.Sequence = ParseUint(sq.s)] ELSE tx]
    ELSE [err |-> "",
          tx |-> [tx EXCEPT
                    !.Sequence = IF sq.k = "num" THEN ParseUint(sq.s) ELSE @,
                    !.TransactionType =
                        IF tt.k = "str" THEN TransactionTypeUnmarshalText(tt.s).v ELSE @]]

TransactionFrom(doc, tx) ==
    IF ~doc.ok THEN [err |-> "SyntaxError", tx |-> tx]
    ELSE IF doc.v.k # "obj" THEN [err |-> "UnmarshalTypeError", tx |-> tx]
    ELSE StoreTransaction(tx, MemberOrNull(doc.v, Text.TransactionType),
                          MemberOrNull(doc.v, Text.Sequence))

\* json.Unmarshal(b, txm.Transaction): the variant's own top-level fields
UnmarshalTransaction(b, tx) == TransactionFrom(JsonParse(b), tx)

\* a MetaData struct stored from the JSON values of its keys: the keys
\* present are stored, the others keep what the struct held
StoreMetaData(old, ti, tr) ==
    IF ti.k \notin {"num", "null"} \/ tr.k \notin {"str", "null"}
    THEN [err |-> "UnmarshalTypeError", meta |-> old]
    ELSE IF tr.k = "str" /\ ~TransactionResultUnmarshalText(tr.s).ok
    THEN [err |-> "UnknownTransactionResult", meta |-> old]
    ELSE [err |-> "",
          meta |-> [old EXCEPT
                      !.TransactionIndex = IF ti.k = "num" THEN ParseUint(ti.s) ELSE @,
                      !.TransactionResult =
                          IF tr.k = "str" THEN TransactionResultUnmarshalText(tr.s).v ELSE @]]

\* json decoding of the JSON value v into a MetaData struct holding old
UnmarshalMetaData(v, old) ==
    IF v.k = "null" THEN [err |-> "", meta |-> old]
    ELSE IF v.k # "obj" THEN [err |-> "UnmarshalTypeError", meta |-> old]
    ELSE StoreMetaData(old, MemberOrNull(v, Text.TransactionIndex),
                       MemberOrNull(v, Text.TransactionResult))

StoreNormal(txm, m, li) ==
    IF m.err # "" THEN [err |-> m.err, txm |-> txm]
    ELSE IF li.k \notin {"num", "null"}
    THEN [err |-> "UnmarshalTypeError", txm |-> [txm EXCEPT !.MetaData = m.meta]]
    ELSE [err |-> "",
          txm |-> [txm EXCEPT !.MetaData = m.meta,
                              !.LedgerSequence = IF li.k = "num" THEN ParseUint(li.s) ELSE @]]

NormalFrom(doc, txm) ==
    IF ~doc.ok THEN [err |-> "SyntaxError", txm |-> txm]
    ELSE IF doc.v.k # "obj" THEN [err |-> "UnmarshalTypeError", txm |-> txm]
    ELSE StoreNormal(txm, UnmarshalMetaData(MemberOrNull(doc.v, Text.meta), txm.MetaData),
                     MemberOrNull(doc.v, Text.ledger_index))

\* json.Unmarshal(b, (*txmNormal)(txm)): "meta" and "ledger_index" at the top
\* level of the input, stored into the target itself
UnmarshalTxmNormal(b, txm) == NormalFrom(JsonParse(b), txm)

LedgerFrom(doc) ==
    IF ~doc.ok THEN [err |-> "SyntaxError", meta |-> ZeroMetaData]
    ELSE IF doc.v.k # "obj" THEN [err |-> "UnmarshalTypeError", meta |-> ZeroMetaData]
    ELSE UnmarshalMetaData(MemberOrNull(doc.v, Text.metaData), ZeroMetaData)

\* var meta txmLedger; json.Unmarshal(b, &meta): "metaData" at the top level
\* of the input, into a fresh wrapper; the result is meta.MetaData
UnmarshalTxmLedger(b) == LedgerFrom(JsonParse(b))

\* ------------------------------------------------------------------------
\* TransactionWithMetaData
\* ------------------------------------------------------------------------
\* res: "ok", the error, or "panic"; factory: whether GetTxFactoryByType ran
Ret(txm, res, factory) == [txm |-> txm, res |-> res, factory |-> factory]

\* case "meta": return json.Unmarshal(b, (*txmNormal)(txm))
CaseMeta(n) == Ret(n.txm, IF n.err = "" THEN "ok" ELSE n.err, TRUE)

\* case "metaData" without the assignment txm.MetaData = meta.MetaData
CaseMetaDataNotStored(txm, meta) ==
    IF meta.err # "" THEN Ret(txm, meta.err, TRUE) ELSE Ret(txm, "ok", TRUE)

\* case "metaData": txm.MetaData = meta.MetaData unless the decoding failed
CaseMetaData(txm, meta) ==
    IF meta.err # "" THEN Ret(txm, meta.err, TRUE)
    ELSE Ret([txm EXCEPT !.MetaData = meta.meta], "ok", TRUE)

\* switch metaType
SwitchMetaType(b, txm, metaType) ==
    IF metaType = Text.meta THEN CaseMeta(UnmarshalTxmNormal(b, txm))
    ELSE IF metaType = Text.metaData THEN CaseMetaData(txm, UnmarshalTxmLedger(b))
    ELSE Ret(txm, "ok", TRUE)

\* if err := json.Unmarshal(b, txm.Transaction); err != nil { return err }
AfterTransaction(txm, b, metaType, u) ==
    IF u.err # "" THEN Ret([txm EXCEPT !.Transaction = u.tx], u.err, TRUE)
    ELSE SwitchMetaType(b, [txm EXCEPT !.Transaction = u.tx], metaType)

\* h, err := hex.DecodeString(hash); txm.SetHash(h)
AfterHexDecode(txm, b, metaType, h) ==
    IF ~h.ok THEN Ret(txm, "BadHash", TRUE)
    ELSE AfterTransaction(txm, b, metaType,
                          UnmarshalTransaction(b, SetHash(txm.Transaction, h.bytes)))

\* txm.Transaction = GetTxFactoryByType(txType)()
AfterFactory(txm, b, hash, metaType, made) ==
    IF made.panic THEN Ret(txm, "panic", TRUE)
    ELSE AfterHexDecode([txm EXCEPT !.Transaction = made.tx], b, metaType,
                        hexDecodeString(hash))

\* the three matches examined
AfterScan(txm, b, unreg, txTypeMatch, hashMatch, metaTypeMatch) ==
    IF ~txTypeMatch.found THEN Ret(txm, "MissingTransactionType", FALSE)
    ELSE IF ~hashMatch.found THEN Ret(txm, "MissingHash", FALSE)
    ELSE AfterFactory(txm, b, hashMatch.cap,
                      IF metaTypeMatch.found THEN metaTypeMatch.cap ELSE <<>>,
                      GetTxFactoryByType(txTypeMatch.cap, unreg))

\* func (txm *TransactionWithMetaData) UnmarshalJSON(b []byte) error
TxmUnmarshalJSON(txm, b, unreg) ==
    AfterScan(txm, b, unreg, txmTransactionTypeRegex(b), txmHashRegex(b),
              txmMetaTypeRegex(b))

\* json.Marshal(txm.Transaction)
MarshalTransaction(tx) ==
    IF tx = NilTx THEN <<"n","u","l","l">>
    ELSE IF tx.variant = Text.Empty THEN <<"{", "}">>
    ELSE <<"{">> \o Quoted(Text.TransactionType) \o <<":">>
             \o Quoted(TransactionTypeMarshalText(tx.TransactionType))
         \o <<",">> \o Quoted(Text.Sequence) \o <<":">>
             \o FormatUint(tx.Sequence)
         \o <<"}">>

\* json.Marshal(txm.MetaData)
MarshalMetaData(m) ==
    <<"{">> \o Quoted(Text.TransactionIndex) \o <<":">> \o FormatUint(m.TransactionIndex)
    \o <<",">> \o Quoted(Text.TransactionResult) \o <<":">>
        \o Quoted(TransactionResultMarshalText(m.TransactionResult))
    \o <<"}">>

\* tx[:len(tx)-1]
DropLast(t) == SubSeq(t, 1, Len(t) - 1)

\* fmt.Sprintf(txmFormat, tx, hash, seq, seq, meta)
txmFormat(tx, hash, seq, meta) ==
    tx \o <<",">> \o Quoted(Text.hash) \o <<":">> \o Quoted(hash)
       \o <<",">> \o Quoted(Text.inLedger) \o <<":">> \o FormatUint(seq)
       \o <<",">> \o Quoted(Text.ledger_index) \o <<":">> \o FormatUint(seq)
       \o <<",">> \o Quoted(Text.meta) \o <<":">> \o meta \o <<"}">>

\* func (txm TransactionWithMetaData) MarshalJSON() ([]byte, error)
\* txm.Hash() on a nil Transaction panics.
TxmMarshalJSON(txm) ==
    IF txm.Transaction = NilTx THEN [res |-> "panic", out |-> <<>>]
    ELSE [res |-> "ok",
          out |-> txmFormat(DropLast(MarshalTransaction(txm.Transaction)),
                            hexEncode(txm.Transaction.Hash),
                            txm.LedgerSequence, MarshalMetaData(txm.MetaData))]

\* ------------------------------------------------------------------------
\* Inputs: the payloads of the upstream API
\* ------------------------------------------------------------------------
\* the bytes of the hash the payloads carry; a short hash lacks the last one
GoodHash == [i \in 1..HashLen |-> 170 + i]

\* a payload: which TransactionType and hash value it carries, under which
\* key its metadata sits, the order of its fields, whether the transaction's
\* fields are nested in a "tx" object, one line or one field per line.
\* typeFirst: the transaction's fields, hash, ledger_index, metadata
\* hashFirst: hash, the transaction's fields, ledger_index, metadata
\* hashLast:  ledger_index, metadata, the transaction's fields, hash
Payloads == {p \in [tt : {"none", "Payment", "OfferCreate", "Bogus"},
                    hash : {"none", "good", "short", "nonhex"},
                    meta : {"none", "meta", "metaData"},
                    order : {"typeFirst", "hashFirst", "hashLast"},
                    nested : BOOLEAN, layout : {"line", "lines"}] :
                p.nested => p.order = "typeFirst"}
NoPayload == [tt |-> "none", hash |-> "none", meta |-> "none",
              order |-> "typeFirst", nested |-> FALSE, layout |-> "line"]

\* the payloads a caller decodes into a target that was written before
ReusePayloads == {p \in Payloads : /\ p.layout = "lines" /\ p.order = "typeFirst"
                                   /\ ~p.nested /\ p.tt \in {"none", "Payment"}
                                   /\ p.hash \in {"good", "short"}}

TTText(k) == CASE k = "Payment" -> Text.Payment [] k = "OfferCreate" -> Text.OfferCreate
               [] k = "Bogus" -> Text.Bogus
HashText(k) == CASE k = "good" -> hexEncode(GoodHash) [] k = "short" -> hexEncode(SubSeq(GoodHash, 1, HashLen - 1))
                 [] k = "nonhex" -> <<"z","z">> \o hexEncode(SubSeq(GoodHash, 1, HashLen - 1))
\* the sequence number, ledger index and metadata every payload carries
InSequence == 5
InLedgerIndex == 3
InMetaData == [TransactionIndex |-> 1, TransactionResult |-> 100]

RECURSIVE Join(_, _)
Join(parts, sep) == IF parts = <<>> THEN <<>>
                    ELSE IF Len(parts) = 1 THEN parts[1]
                    ELSE parts[1] \o sep \o Join(Tail(parts), sep)

Field(key, value) == Quoted(key) \o <<":">> \o value

Object(fields, layout) ==
    IF layout = "line" THEN <<"{">> \o Join(fields, <<",">>) \o <<"}">>
    ELSE <<"{", NL>> \o Join(fields, <<",", NL>>) \o <<NL, "}">>

Render(p) ==
    LET own == (IF p.tt = "none" THEN <<>>
                ELSE <<Field(Text.TransactionType, Quoted(TTText(p.tt)))>>)
               \o <<Field(Text.Sequence, FormatUint(InSequence))>>
        tx == IF p.nested THEN <<Field(Text.tx, Object(own, p.layout))>> ELSE own
        hash == IF p.hash = "none" THEN <<>>
                ELSE <<Field(Text.hash, Quoted(HashText(p.hash)))>>
        metaObj == Object(<<Field(Text.TransactionIndex, FormatUint(InMetaData.TransactionIndex)),
                            Field(Text.TransactionResult,
                                  Quoted(resultNames(InMetaData.TransactionResult)))>>,
                          p.layout)
        meta == IF p.meta = "none" THEN <<>>
                ELSE <<Field(IF p.meta = "meta" THEN Text.meta ELSE Text.metaData, metaObj)>>
        tail == <<Field(Text.ledger_index, FormatUint(InLedgerIndex))>> \o meta
    IN Object(CASE p.order = "typeFirst" -> tx \o hash \o tail
                [] p.order = "hashFirst" -> hash \o tx \o tail
                [] p.order = "hashLast" -> tail \o tx \o hash,
              p.layout)

\* ------------------------------------------------------------------------
\* Account, Currency, Value, Amount
\* ------------------------------------------------------------------------
\* width in bytes of an Account / RegularKey as modelled
AccountLen == 2

\* the address codec (package crypto): a version character and the payload.
\* The payload is rendered in hex here; the codec is one-to-one.
AddressText(version, payload) == <<version>> \o hexEncode(payload)

\* crypto.NewRippleHash(s)
NewRippleHashFrom(s, h) ==
    IF h.ok THEN [ok |-> TRUE, version |-> s[1], payload |-> h.bytes]
    ELSE [ok |-> FALSE, version |-> "", payload |-> <<>>]
NewRippleHash(s) ==
    IF s = <<>> \/ s[1] \notin {"r", "n"}
    THEN [ok |-> FALSE, version |-> "", payload |-> <<>>]
    ELSE NewRippleHashFrom(s, hexDecodeString(Tail(s)))

\* a.UnmarshalText(text) for Account
AccountFrom(a, tmp) ==
    IF ~tmp.ok THEN [res |-> "BadAddress", a |-> a]
    ELSE IF tmp.version # "r" THEN [res |-> "IncorrectVersion", a |-> a]
    ELSE [res |-> "ok", a |-> Copy(a, tmp.payload)]
AccountUnmarshalText(a, text) == AccountFrom(a, NewRippleHash(text))

\* a.MarshalText() for Account and r.MarshalText() for RegularKey: a and r
\* are arrays, so len is the width and never 0; crypto.NewRippleAccount fails
\* on a payload of another length only
AccountMarshalText(a) ==
    IF Len(a) = 0 THEN [res |-> "ok", out |-> <<>>, codec |-> FALSE]
    ELSE IF Len(a) # AccountLen THEN [res |-> "error", out |-> <<>>, codec |-> TRUE]
    ELSE [res |-> "ok", out |-> AddressText("r", a), codec |-> TRUE]
RegularKeyMarshalText(r) ==
    IF Len(r) = 0 THEN [res |-> "ok", out |-> <<>>, codec |-> FALSE]
    ELSE IF Len(r) # AccountLen THEN [res |-> "error", out |-> <<>>, codec |-> TRUE]
    ELSE [res |-> "ok", out |-> AddressText("r", r), codec |-> TRUE]

\* NewCurrency(s): a three-character code; anything else is an error and
\* leaves the zero Currency
NewCurrency(s) ==
    IF Len(s) = 3 THEN [ok |-> TRUE, c |-> s] ELSE [ok |-> FALSE, c |-> <<>>]
CurrencyUnmarshalText(text) == NewCurrency(text)
CurrencyMarshalText(c) == c

\* Value: Native and the magnitude Num; an issued value keeps its decimal
\* text in Dec.  NilValue is the nil *Value of a zero Amount.
ZeroValue == [nil |-> FALSE, Native |-> FALSE, Num |-> 0, Dec |-> <<>>]
NilValue == [nil |-> TRUE, Native |-> FALSE, Num |-> 0, Dec |-> <<>>]

IsDecimal(s) ==
    /\ \E i \in 1..Len(s) : s[i] \in Digits
    /\ \A i \in 1..Len(s) : s[i] \in Digits \cup {"."}
    /\ Cardinality({i \in 1..Len(s) : s[i] = "."}) <= 1

\* v.Parse(s): a native value is an unsigned integer count, an issued value
\* a decimal number
ValueParse(v, s) ==
    IF v.Native
    THEN IF s # <<>> /\ \A i \in 1..Len(s) : s[i] \in Digits
         THEN [ok |-> TRUE, v |-> [v EXCEPT !.Num = ParseUint(s)]]
         ELSE [ok |-> FALSE, v |-> v]
    ELSE IF IsDecimal(s) THEN [ok |-> TRUE, v |-> [v EXCEPT !.Dec = s]]
         ELSE [ok |-> FALSE, v |-> v]

\* v.UnmarshalText(b) for Value
ValueUnmarshalText(v, b) == ValueParse([v EXCEPT !.Native = TRUE], b)
\* v.MarshalText() for Value
ValueMarshalText(v) == IF v.Native THEN FormatUint(v.Num) ELSE v.Dec

ZeroAmount == [Value |-> NilValue, Currency |-> <<>>, Issuer |-> ZeroBytes(AccountLen)]

\* json.Unmarshal(b, &m) with m a map[string]string succeeds on null and on
\* an object whose members are all strings (or null)
IsStringMap(doc) ==
    /\ doc.ok
    /\ \/ doc.v.k = "null"
       \/ /\ doc.v.k = "obj"
          /\ \A k \in 1..Len(doc.v.m) : doc.v.m[k][2].k \in {"str", "null"}
\* m[key]: the empty string for an absent key
MapGet(doc, key) == IF HasMember(doc.v, key) THEN Member(doc.v, key).s ELSE <<>>

\* a.UnmarshalJSON(b) for Amount, from the last statement back to the first
AmountIssuer(a, r) == [res |-> r.res, a |-> [a EXCEPT !.Issuer = r.a]]
AmountValue(a, doc, r) ==
    IF ~r.ok THEN [res |-> "BadValue", a |-> [a EXCEPT !.Value = r.v]]
    ELSE AmountIssuer([a EXCEPT !.Value = r.v],
                      AccountUnmarshalText(a.Issuer, MapGet(doc, Text.issuer)))
AmountCurrency(a, doc, r) ==
    IF ~r.ok THEN [res |-> "BadCurrency", a |-> [a EXCEPT !.Currency = r.c]]
    ELSE AmountValue([a EXCEPT !.Currency = r.c], doc,
                     ValueParse([a.Value EXCEPT !.Native = FALSE], MapGet(doc, Text.value)))
AmountNativeValue(a, r) ==
    [res |-> IF r.ok THEN "ok" ELSE "BadValue", a |-> [a EXCEPT !.Value = r.v]]
\* b[1 : len(b)-1] panics when len(b) < 2
AmountNative(a, b) ==
    IF Len(b) < 2 THEN [res |-> "panic", a |-> a]
    ELSE AmountNativeValue(a, ValueUnmarshalText(a.Value, SubSeq(b, 2, Len(b) - 1)))
AmountFrom(a, b, doc) ==
    IF IsStringMap(doc) THEN AmountCurrency(a, doc, CurrencyUnmarshalText(MapGet(doc, Text.currency)))
    ELSE AmountNative(a, b)
AmountUnmarshalJSON(a, b) == AmountFrom([a EXCEPT !.Value = ZeroValue], b, JsonParse(b))

\* a.MarshalJSON() for Amount; a.Native reads through the Value pointer
AmountIssued(a, issuer) ==
    IF issuer.res # "ok" THEN [res |-> "error", out |-> <<>>]
    ELSE [res |-> "ok",
          out |-> Object(<<Field(Text.value, Quoted(ValueMarshalText(a.Value))),
                           Field(Text.currency, Quoted(CurrencyMarshalText(a.Currency))),
                           Field(Text.issuer, Quoted(issuer.out))>>, "line")]
AmountMarshalJSON(a) ==
    IF a.Value.nil THEN [res |-> "panic", out |-> <<>>]
    ELSE IF a.Value.Native THEN [res |-> "ok", out |-> Quoted(FormatUint(a.Value.Num))]
    ELSE AmountIssued(a, AccountMarshalText(a.Issuer))

\* ------------------------------------------------------------------------
\* Fixed-width identifiers
\* ------------------------------------------------------------------------
\* widths in bytes as modelled (Hash256 is HashLen wide)
Hash128Len == 1
Hash160Len == 1
PublicKeyLen == 3

\* which encoding/hex the build links: Decode checks an odd length before the
\* pairs ("lengthFirst") or after them ("pairsFirst")
HexImpls == {"lengthFirst", "pairsFirst"}

BadPair(src, i) == src[2 * i - 1] \notin HexChars \/ src[2 * i] \notin HexChars
PairByte(src, i) == 16 * HexVal(src[2 * i - 1]) + HexVal(src[2 * i])

\* the pairs before pair k are written to dst; pair k is a bad pair (an
\* error) or lies beyond dst (the index is out of range: a panic)
hexDecodeUpTo(dst, src, k) ==
    [res |-> IF k > Len(src) \div 2
             THEN (IF Len(src) % 2 = 1 THEN "error" ELSE "ok")
             ELSE (IF BadPair(src, k) THEN "error" ELSE "panic"),
     dst |-> [i \in 1..Len(dst) |-> IF i < k THEN PairByte(src, i) ELSE dst[i]]]

\* hex.Decode(dst, src)
hexDecode(dst, src, impl) ==
    IF impl = "lengthFirst" /\ Len(src) % 2 = 1 THEN [res |-> "error", dst |-> dst]
    ELSE hexDecodeUpTo(dst, src,
                       Min({i \in 1..(Len(src) \div 2) : BadPair(src, i) \/ i > Len(dst)}
                           \cup {Len(src) \div 2 + 1}))

\* h.UnmarshalText(b): Hash256 and PublicKey have pointer receivers, and the
\* caller's array is what hex.Decode writes
Hash256UnmarshalText(h, b, impl) == hexDecode(h, b, impl)
PublicKeyUnmarshalText(p, b, impl) == hexDecode(p, b, impl)
\* Hash128 and Hash160 have value receivers: hex.Decode writes a copy, and
\* the caller's array stays as it was
Hash128UnmarshalText(h, b, impl) == [hexDecode(h, b, impl) EXCEPT !.dst = h]
Hash160UnmarshalText(h, b, impl) == [hexDecode(h, b, impl) EXCEPT !.dst = h]

\* ------------------------------------------------------------------------
\* Inputs of the Amount and identifier codecs
\* ------------------------------------------------------------------------
\* the issuer every object input names
InIssuer == [i \in 1..AccountLen |-> 16 + i]

\* an Amount input: a quoted or bare number n, null, or an object whose
\* currency is a code, a bad code or absent, whose issuer is an account
\* address, a node address or absent, and whose value is n as a string, n as
\* a number, or absent
AmountNums == {0, 7, 42, 123}
AmountInputs ==
    [shape : {"quoted", "bare"}, n : AmountNums, cur : {"none"}, iss : {"none"}, val : {"none"}]
    \cup [shape : {"null"}, n : {0}, cur : {"none"}, iss : {"none"}, val : {"none"}]
    \cup [shape : {"object"}, n : {42}, cur : {"USD", "US", "none"},
          iss : {"account", "node", "none"}, val : {"text", "number", "none"}]
NoAmountInput == [shape |-> "null", n |-> 0, cur |-> "none", iss |-> "none", val |-> "none"]

RenderAmountObject(x) ==
    Object((IF x.cur = "none" THEN <<>>
            ELSE <<Field(Text.currency, Quoted(IF x.cur = "USD" THEN Text.USD ELSE Text.US))>>)
           \o (IF x.iss = "none" THEN <<>>
               ELSE <<Field(Text.issuer, Quoted(AddressText(IF x.iss = "account" THEN "r"
                                                         ELSE "n", InIssuer)))>>)
           \o (IF x.val = "none" THEN <<>>
               ELSE <<Field(Text.value, IF x.val = "text" THEN Quoted(FormatUint(x.n))
                                    ELSE FormatUint(x.n))>>),
           "line")

RenderAmount(x) ==
    CASE x.shape = "quoted" -> Quoted(FormatUint(x.n))
      [] x.shape = "bare" -> FormatUint(x.n)
      [] x.shape = "null" -> Text.null
      [] x.shape = "object" -> RenderAmountObject(x)

\* the longest hex text decoded
MaxHexLen == 7
\* a hex text: len characters, the one at bad (if any) not a hex digit
HexInputs == {x \in [len : 0..MaxHexLen, bad : 0..MaxHexLen] : x.bad <= x.len}
NoHexInput == [len |-> 0, bad |-> 0]
HexText(x) == [i \in 1..x.len |-> IF i = x.bad THEN "g" ELSE HexDigit(i)]

\* the Account / RegularKey values encoded
Accounts == [1..AccountLen -> {0, 1}]

\* ------------------------------------------------------------------------
\* State
\* ------------------------------------------------------------------------
VARIABLES
    txm,      \* the TransactionWithMetaData value the caller decodes into
    origin,   \* where txm comes from: "zero", "decoded", "failed", "built"
    last,     \* the last call: its input, what txm held, its result
    amt,      \* the Amount value the caller decodes into
    lastAmt,  \* the last Amount call
    ids,      \* the caller's Hash128, Hash160, Hash256 and PublicKey values
    lastId    \* the last identifier call

txmVars == <<txm, origin, last>>
amtVars == <<amt, lastAmt>>
idVars == <<ids, lastId>>
vars == <<txm, origin, last, amt, lastAmt, ids, lastId>>

ZeroIds == [h128 |-> ZeroBytes(Hash128Len), h160 |-> ZeroBytes(Hash160Len),
            h256 |-> ZeroBytes(HashLen), pk |-> ZeroBytes(PublicKeyLen)]

NoCall == [op |-> "none", p |-> NoPayload, prevOrigin |-> "zero",
           prevMeta |-> ZeroMetaData, prevSeq |-> 0,
           res |-> "", factory |-> FALSE, out |-> <<>>, rt |-> ZeroTxm]

NoAmountCall == [op |-> "none", in |-> NoAmountInput, prev |-> ZeroAmount,
                 res |-> "", out |-> <<>>]

NoIdCall == [op |-> "none", in |-> NoHexInput, acct |-> ZeroBytes(AccountLen),
             prev |-> ZeroIds, res |-> "", out |-> <<>>, codec |-> FALSE]

\* a panic ends the process
Running == last.res # "panic"

Init ==
    /\ txm = ZeroTxm
    /\ origin = "zero"
    /\ last = NoCall
    /\ amt = ZeroAmount
    /\ lastAmt = NoAmountCall
    /\ ids = ZeroIds
    /\ lastId = NoIdCall

\* var txm TransactionWithMetaData: the caller takes a fresh target
NewTxm ==
    /\ Running
    /\ txm' = ZeroTxm
    /\ origin' = "zero"
    /\ last' = [NoCall EXCEPT !.op = "new"]
    /\ UNCHANGED <<amtVars, idVars>>

\* the caller builds a value around a transaction that encodes no field
BuildTxm ==
    /\ Running
    /\ \E seq \in 0..MaxSeq :
        txm' = [Transaction |-> EmptyTx, MetaData |-> ZeroMetaData, LedgerSequence |-> seq]
    /\ origin' = "built"
    /\ last' = [NoCall EXCEPT !.op = "build"]
    /\ UNCHANGED <<amtVars, idVars>>

DecodedTxm(p, r) ==
    /\ txm' = r.txm
    /\ origin' = IF r.res = "ok" THEN "decoded" ELSE "failed"
    /\ last' = [NoCall EXCEPT !.op = "decode", !.p = p, !.prevOrigin = origin,
                              !.prevMeta = txm.MetaData,
                              !.prevSeq = txm.LedgerSequence,
                              !.res = r.res, !.factory = r.factory]

\* json.Unmarshal(payload, &txm); a target written before is reused with the
\* payloads of ReusePayloads
DecodeTxm ==
    /\ Running
    /\ \E p \in (IF origin = "zero" THEN Payloads ELSE ReusePayloads), unreg \in {"default", "nil"} :
        DecodedTxm(p, TxmUnmarshalJSON(txm, Render(p), unreg))
    /\ UNCHANGED <<amtVars, idVars>>

MarshalledTxm(r) == last' = [NoCall EXCEPT !.op = "marshal", !.res = r.res, !.out = r.out]

\* json.Marshal(txm)
MarshalTxm ==
    /\ Running
    /\ last.op # "marshal"
    /\ MarshalledTxm(TxmMarshalJSON(txm))
    /\ UNCHANGED <<txm, origin, amtVars, idVars>>

RedecodedTxm(r) ==
    last' = [NoCall EXCEPT !.op = "redecode", !.res = r.res, !.factory = r.factory,
                           !.out = last.out, !.rt = r.txm]

\* the text MarshalTxm produced, decoded into a fresh value
RedecodeTxm ==
    /\ Running
    /\ last.op = "marshal"
    /\ last.res = "ok"
    /\ \E unreg \in {"default", "nil"} : RedecodedTxm(TxmUnmarshalJSON(ZeroTxm, last.out, unreg))
    /\ UNCHANGED <<txm, origin, amtVars, idVars>>

NextTxm == NewTxm \/ BuildTxm \/ DecodeTxm \/ MarshalTxm \/ RedecodeTxm

SpecTxm == Init /\ [][NextTxm]_vars

\* ------------------------------------------------------------------------
\* Amount codec as a state machine
\* ------------------------------------------------------------------------
RunningAmount == lastAmt.res # "panic"

\* var a Amount
NewAmount ==
    /\ RunningAmount
    /\ amt' = ZeroAmount
    /\ lastAmt' = [NoAmountCall EXCEPT !.op = "new"]
    /\ UNCHANGED <<txmVars, idVars>>

DecodedAmount(x, r) ==
    /\ amt' = r.a
    /\ lastAmt' = [NoAmountCall EXCEPT !.op = "decode", !.in = x, !.prev = amt, !.res = r.res]

\* a.UnmarshalJSON(text), the target being whatever the caller holds
DecodeAmount ==
    /\ RunningAmount
    /\ \E x \in AmountInputs : DecodedAmount(x, AmountUnmarshalJSON(amt, RenderAmount(x)))
    /\ UNCHANGED <<txmVars, idVars>>

MarshalledAmount(r) ==
    lastAmt' = [NoAmountCall EXCEPT !.op = "marshal", !.res = r.res, !.out = r.out]

\* a.MarshalJSON()
MarshalAmount ==
    /\ RunningAmount
    /\ lastAmt.op # "marshal"
    /\ MarshalledAmount(AmountMarshalJSON(amt))
    /\ UNCHANGED <<amt, txmVars, idVars>>

NextAmount == NewAmount \/ DecodeAmount \/ MarshalAmount

SpecAmount == Init /\ [][NextAmount]_vars

\* ------------------------------------------------------------------------
\* Identifier codecs as a state machine
\* ------------------------------------------------------------------------
RunningIds == lastId.res # "panic"

DecodedId(op, x, r) ==
    lastId' = [NoIdCall EXCEPT !.op = op, !.in = x, !.prev = ids, !.res = r.res]

\* h.UnmarshalText(text) on the caller's Hash128
DecodeHash128 ==
    /\ RunningIds
    /\ \E x \in HexInputs, impl \in HexImpls :
        /\ ids' = [ids EXCEPT !.h128 = Hash128UnmarshalText(ids.h128, HexText(x), impl).dst]
        /\ DecodedId("Hash128", x, Hash128UnmarshalText(ids.h128, HexText(x), impl))
    /\ UNCHANGED <<txmVars, amtVars>>

\* h.UnmarshalText(text) on the caller's Hash160
DecodeHash160 ==
    /\ RunningIds
    /\ \E x \in HexInputs, impl \in HexImpls :
        /\ ids' = [ids EXCEPT !.h160 = Hash160UnmarshalText(ids.h160, HexText(x), impl).dst]
        /\ DecodedId("Hash160", x, Hash160UnmarshalText(ids.h160, HexText(x), impl))
    /\ UNCHANGED <<txmVars, amtVars>>

\* h.UnmarshalText(text) on the caller's Hash256
DecodeHash256 ==
    /\ RunningIds
    /\ \E x \in HexInputs, impl \in HexImpls :
        /\ ids' = [ids EXCEPT !.h256 = Hash256UnmarshalText(ids.h256, HexText(x), impl).dst]
        /\ DecodedId("Hash256", x, Hash256UnmarshalText(ids.h256, HexText(x), impl))
    /\ UNCHANGED <<txmVars, amtVars>>

\* p.UnmarshalText(text) on the caller's PublicKey
DecodePublicKey ==
    /\ RunningIds
    /\ \E x \in HexInputs, impl \in HexImpls :
        /\ ids' = [ids EXCEPT !.pk = PublicKeyUnmarshalText(ids.pk, HexText(x), impl).dst]
        /\ DecodedId("PublicKey", x, PublicKeyUnmarshalText(ids.pk, HexText(x), impl))
    /\ UNCHANGED <<txmVars, amtVars>>

EncodedId(op, a, r) ==
    lastId' = [NoIdCall EXCEPT !.op = op, !.acct = a, !.prev = ids, !.res = r.res,
                               !.out = r.out, !.codec = r.codec]

\* a.MarshalText() for an Account
EncodeAccount ==
    /\ RunningIds
    /\ \E a \in Accounts : EncodedId("Account", a, AccountMarshalText(a))
    /\ UNCHANGED <<ids, txmVars, amtVars>>

\* r.MarshalText() for a RegularKey
EncodeRegularKey ==
    /\ RunningIds
    /\ \E r \in Accounts : EncodedId("RegularKey", r, RegularKeyMarshalText(r))
    /\ UNCHANGED <<ids, txmVars, amtVars>>

NextIds == DecodeHash256 \/ DecodePublicKey \/ DecodeHash128 \/ DecodeHash160
           \/ EncodeAccount \/ EncodeRegularKey

SpecIds == Init /\ [][NextIds]_vars


\* ------------------------------------------------------------------------
\* Properties of the envelope codec (SpecTxm)
\* ------------------------------------------------------------------------
Decoded == last.op = "decode"
RegisteredKinds == {"Payment", "OfferCreate"}

\* the hash a payload's hash text stands for, in a fresh transaction
ExpectedHash(kind) ==
    IF kind = "good" THEN GoodHash
    ELSE [i \in 1..HashLen |-> IF i < HashLen THEN GoodHash[i] ELSE 0]

\* the hash text is the last quoted text of its line
HashEndsItsLine(p) == p.layout = "lines" \/ p.order = "hashLast"

\* C1: a payload with a registered TransactionType T and a full-width hash H,
\* whatever its field order, layout and nesting, decodes to variant T with
\* hash H, and its metadata is populated when it has meta or metaData.
C1_SelectsTypeAndHash ==
    (Decoded /\ last.p.tt \in RegisteredKinds /\ last.p.hash = "good") =>
        /\ last.res = "ok"
        /\ txm.Transaction.variant = TTText(last.p.tt)
        /\ txm.Transaction.Hash = GoodHash
        /\ (last.p.meta # "none" => txm.MetaData = InMetaData)

\* C2: the text MarshalJSON gives for a successfully decoded value decodes
\* again, to an equal value.
C2_RoundTrip ==
    (last.op = "redecode" /\ origin = "decoded") =>
        (last.res = "ok" /\ last.rt = txm)

\* C3: a payload, otherwise valid and with one field per line, whose
\* TransactionType is not registered fails with the unknown-identifier
\* error: no success, no panic.
C3_UnknownTypeIsAnError ==
    (Decoded /\ last.p.tt = "Bogus" /\ last.p.hash = "good" /\ last.p.layout = "lines") =>
        last.res = "UnknownTransactionType"

\* C4: a payload without TransactionType fails with the missing-field error
\* and the factory is not invoked, whatever else the payload holds.
C4_MissingTypeNoFactory ==
    (Decoded /\ last.p.tt = "none") =>
        (last.res = "MissingTransactionType" /\ ~last.factory)

C4_Witness ==
    /\ Decoded /\ last.p.tt = "none" /\ last.p.hash = "good" /\ last.p.meta = "meta"
    /\ last.res = "MissingTransactionType"

C8_NoMetaLeavesZero ==
    (Decoded /\ last.res = "ok" /\ last.p.meta = "none" /\ last.prevOrigin = "decoded") =>
        (txm.MetaData = ZeroMetaData /\ txm.LedgerSequence = 0)

MarshalledObject(doc, seq) ==
    /\ doc.ok
    /\ doc.v.k = "obj"
    /\ HasMember(doc.v, Text.hash)
    /\ HasMember(doc.v, Text.meta)
    /\ MemberOrNull(doc.v, Text.inLedger) = JNum(FormatUint(seq))
    /\ MemberOrNull(doc.v, Text.ledger_index) = JNum(FormatUint(seq))

\* C9: MarshalJSON of a value holding a transaction gives one well-formed
\* JSON object with hash, inLedger, ledger_index and meta, both sequence
\* fields being the ledger sequence.
C9_MarshalWellFormed ==
    (last.op = "marshal" /\ txm.Transaction # NilTx) =>
        (last.res = "ok" /\ MarshalledObject(JsonParse(last.out), txm.LedgerSequence))

\* ------------------------------------------------------------------------
\* Properties of the identifier codecs (SpecIds)
\* ------------------------------------------------------------------------
WidthOf(op) == CASE op = "Hash128" -> Hash128Len [] op = "Hash160" -> Hash160Len
                 [] op = "Hash256" -> HashLen [] op = "PublicKey" -> PublicKeyLen

\* C5: decoding a fixed-width hex identifier from a text of odd length, with
\* a character that is no hex digit, or of another width than the type's,
\* returns an error: no success, no panic.
C5_MalformedHexIsAnError ==
    (/\ lastId.op \in {"Hash128", "Hash160", "Hash256", "PublicKey"}
     /\ \/ lastId.in.len % 2 = 1
        \/ lastId.in.bad # 0
        \/ lastId.in.len # 2 * WidthOf(lastId.op)) =>
        lastId.res = "error"

\* C10: encoding an all-zero Account or RegularKey gives the empty text
\* without the address codec; any other goes through the address codec.
C10_ZeroAccountEncodesEmpty ==
    lastId.op \in {"Account", "RegularKey"} =>
        IF lastId.acct = ZeroBytes(AccountLen)
        THEN lastId.out = <<>> /\ ~lastId.codec
        ELSE lastId.codec

\* ------------------------------------------------------------------------
\* Properties of the Amount codec (SpecAmount)
\* ------------------------------------------------------------------------
\* C6: a quoted or bare number n decodes to a native Value of magnitude n;
\* an object decodes to an issued Value with its currency, issuer and value,
\* or to an error.
C6_ShapeSelectsRepresentation ==
    lastAmt.op = "decode" =>
        /\ (lastAmt.in.shape \in {"quoted", "bare"} =>
                /\ lastAmt.res = "ok"
                /\ amt.Value.Native
                /\ amt.Value.Num = lastAmt.in.n)
        /\ ((lastAmt.in.shape = "object" /\ lastAmt.res = "ok") =>
                /\ ~amt.Value.Native
                /\ amt.Value.Dec = FormatUint(lastAmt.in.n)
                /\ amt.Currency = Text.USD
                /\ amt.Issuer = InIssuer)

====
